---- MODULE Spec2Model ----
(***************************************************************************)
(* security-mas: the job API (api_server/api_server.py), the scan graph     *)
(* (mas_core/graph.py, mas_core/nodes.py) and the two scanner adapters      *)
(* (tools/sast_tool.py, tools/sca_tool.py) as one state machine.            *)
(*                                                                         *)
(* Scheduling.  Every handler of the API is an `async def` without an      *)
(* await in its body, and so is run_scan_task: each runs on the event loop *)
(* from its first line to its last without yielding.  A background task is *)
(* started after the response of create_scan has been sent, so other       *)
(* requests may be served between create_scan and the start of the run,    *)
(* and none while a run is executing.  Inside app_graph.invoke the graph    *)
(* library runs the nodes of one superstep concurrently and starts the     *)
(* next superstep when all of them have returned.                          *)
(***************************************************************************)
EXTENDS Integers, Sequences, FiniteSets, TLC

VARIABLES
    scan_results,   \* api_server.scan_results: scan_id -> job record
    disk,           \* temp directories on disk: workspace id -> extracted tree
    created,        \* ids of the temp directories mkdtemp has made so far
    rmtree_calls,   \* workspace id -> number of shutil.rmtree calls on it
    uploads,        \* the uploads received so far, in order (uploads[s] is submission s)
    background,     \* scan ids whose run_scan_task is scheduled and not started
    run,            \* the run_scan_task being executed (pc = "idle" when none)
    runlog,         \* scan id -> what its run did (history)
    http            \* the response sent in the latest step of the event loop

vars == <<scan_results, disk, created, rmtree_calls, uploads, background, run, runlog, http>>

\* ------------------------------------------------------------------ bounds
MaxSubmits == 2
MaxFindings == 1

\* ------------------------------------------------------------- python values
None == "None"
EmptyDict == <<>>

DictGet(d, k, default) ==
    IF k \in DOMAIN d THEN d[k] ELSE default

Findings(n) ==
    [i \in 1..n |-> "finding"]

Take20(s) ==
    IF Len(s) <= 20 THEN s ELSE SubSeq(s, 1, 20)

\* ------------------------------------------------------------------ uploads
\* A file of an archive: the directories above it, its name and the suffix
\* of the name that filename.endswith is tested against.
File(dirs, name, ext) ==
    [dirs |-> dirs, name |-> name, ext |-> ext]

EmptyTree == {}
DocsOnlyTree == {File(<<>>, "README.md", ".md"), File(<<"node_modules">>, "lib.js", ".js")}
AppTree == {File(<<>>, "app.py", ".py"), File(<<>>, "requirements.txt", ".txt"),
            File(<<"node_modules">>, "lib.js", ".js")}
NestedTree == {File(<<"src">>, "main.go", ".go"), File(<<"src", "deps">>, "requirements.txt", ".txt")}

\* An archive with a member named "../../etc/evil.py".
TraversalTree == {File(<<"..", "..", "etc">>, "evil.py", ".py")}

Trees == {DocsOnlyTree, AppTree, NestedTree, TraversalTree}

\* A member name resolves outside the directory the archive is extracted to.
Escapes(f) ==
    \E i \in DOMAIN f.dirs : f.dirs[i] = ".."

\* An upload: whether its filename ends in ".zip", whether its bytes are a zip
\* archive zipfile can extract, and the tree the archive holds.
Upload(zipname, archive, tree) ==
    [zipname |-> zipname, archive |-> archive, tree |-> tree]

Uploads ==
    { Upload(TRUE, "zip", t) : t \in Trees }
    \cup { Upload(FALSE, "zip", AppTree) }
    \cup { Upload(z, "corrupt", EmptyTree) : z \in BOOLEAN }

\* -------------------------------------------------------------- file discovery
file_extensions == {".py", ".js", ".jsx", ".ts", ".tsx", ".java", ".php", ".go", ".rb"}
ignore_dirs == {"node_modules", ".git", "venv", ".venv", "__pycache__", "build", "dist"}

TreeAt(project_path) ==
    IF project_path \in DOMAIN disk THEN disk[project_path] ELSE {}

\* The files of `tree` that lie in the directory `root` itself.
FilesIn(tree, root) ==
    { f \in tree : f.dirs = root }

\* The names of the directories of `tree` that lie in the directory `root`.
SubDirs(tree, root) ==
    { f.dirs[Len(root) + 1] :
        f \in { g \in tree : /\ Len(g.dirs) > Len(root)
                             /\ SubSeq(g.dirs, 1, Len(root)) = root } }

\* The walk with `dirs = [...]` in place of `dirs[:] = [...]`: os.walk does
\* not see the filtered list and descends into every directory.
RECURSIVE os_walk_unpruned(_, _)
os_walk_unpruned(tree, root) ==
    { f \in FilesIn(tree, root) : f.ext \in file_extensions }
    \cup UNION { os_walk_unpruned(tree, Append(root, d)) : d \in SubDirs(tree, root) }

\* Lines 46-52: the files the loop over os.walk appends from `root` down.
\* os.walk yields a directory, then descends into what the loop body left
\* in `dirs`.
RECURSIVE os_walk(_, _)
os_walk(tree, root) ==
    { f \in FilesIn(tree, root) : f.ext \in file_extensions }
    \cup UNION { os_walk(tree, Append(root, d)) :
                   d \in { x \in SubDirs(tree, root) : x \notin ignore_dirs } }

scan_project_files(tree) ==
    os_walk(tree, <<>>)

\* ------------------------------------------------------- external processes
\* What subprocess.run did: the process exited (exit code, what stdout holds,
\* the number of findings in a parseable stdout, stderr), the 60 s timeout
\* expired, or the process could not be started.
Exit(code, stdout, n, stderr) ==
    [kind |-> "exit", code |-> code, stdout |-> stdout, n |-> n, stderr |-> stderr]

TimeoutExpired ==
    [kind |-> "timeout", code |-> 0, stdout |-> "", n |-> 0, stderr |-> ""]

StartFailed ==
    [kind |-> "oserror", code |-> 0, stdout |-> "", n |-> 0, stderr |-> ""]

SemgrepOutcomes ==
    { Exit(c, "json", n, "") : c \in {0, 1}, n \in 0..MaxFindings }
    \cup { Exit(0, "garbage", 0, ""), Exit(2, "", 0, "semgrep: error"), Exit(2, "", 0, "") }
    \cup { TimeoutExpired, StartFailed }

\* The outcomes a run of the scan graph is checked with: a success with each
\* number of findings, an error exit and a timeout.
SemgrepRunOutcomes ==
    { Exit(0, "json", n, "") : n \in 0..MaxFindings }
    \cup { Exit(2, "", 0, "semgrep: error"), TimeoutExpired }

SnykOutcomes ==
    { Exit(c, "json", n, "") : c \in {0, 1}, n \in 0..MaxFindings }
    \cup { Exit(2, "json", 0, ""), Exit(2, "garbage", 0, ""),
           Exit(2, "", 0, "snyk: error"), Exit(2, "", 0, "") }
    \cup { TimeoutExpired, StartFailed }

SnykRunOutcomes ==
    { Exit(0, "json", n, "") : n \in 0..MaxFindings }
    \cup { Exit(2, "garbage", 0, ""), TimeoutExpired }

\* What a function call did: returned a value, or raised (raised is the
\* message of the exception, None when it returned).
Return(v) ==
    [raised |-> None, value |-> v]

Raise(msg) ==
    [raised |-> msg, value |-> <<>>]

\* What a call of an adapter did, with whether it reached subprocess.run.
Ran(r) ==
    [raised |-> r.raised, value |-> r.value, invoked |-> TRUE]

Skipped(r) ==
    [raised |-> r.raised, value |-> r.value, invoked |-> FALSE]

\* ---------------------------------------------------- tools/sast_tool.py
ScanResult(tool, key, vulns, error) ==
    [tool |-> tool, total_issues |-> Len(vulns), error |-> error] @@ (key :> vulns)

SemgrepResult(total_files, key, vulns, error) ==
    ScanResult("semgrep", key, vulns, error) @@ [total_files |-> total_files]

\* scan_files, lines 33-67: the try block.  subprocess.run raises
\* TimeoutExpired or, when semgrep cannot be started, an OSError; json.loads
\* raises on a stdout that is not JSON.
semgrep_try(file_paths, out) ==
    LET n == Cardinality(file_paths) IN
    IF out.kind = "timeout" THEN Raise("TimeoutExpired")
    ELSE IF out.kind = "oserror" THEN Raise("OSError")
    ELSE IF out.code = 0 \/ out.code = 1
    THEN IF out.stdout = "json"
         THEN Return(SemgrepResult(n, "vulnerabilities", Findings(out.n), None))
         ELSE Raise("JSONDecodeError")
    ELSE Return(SemgrepResult(n, "vulnerabilities", <<>>, out.stderr))

\* scan_files without its `except Exception` clause.
scan_files_no_catch_all(file_paths, out) ==
    LET n == Cardinality(file_paths)
        r == semgrep_try(file_paths, out)
    IN  IF file_paths = {}
        THEN Skipped(Return(SemgrepResult(0, "vulnerabilities", <<>>, None)))
        ELSE IF r.raised = "TimeoutExpired"
        THEN Ran(Return(SemgrepResult(n, "vulnerability", <<>>, "Timeout after 60s")))
        ELSE Ran(r)

\* scan_files without its `if not file_paths` short-circuit.
scan_files_no_short_circuit(file_paths, out) ==
    LET n == Cardinality(file_paths)
        r == semgrep_try(file_paths, out)
    IN  IF r.raised = None THEN Ran(r)
        ELSE IF r.raised = "TimeoutExpired"
        THEN Ran(Return(SemgrepResult(n, "vulnerability", <<>>, "Timeout after 60s")))
        ELSE Ran(Return(SemgrepResult(n, "vulnerability", <<>>, r.raised)))

\* SemgrepScanner.scan_files
scan_files(file_paths, out) ==
    LET n == Cardinality(file_paths)
        r == semgrep_try(file_paths, out)
    IN  IF file_paths = {}
        THEN Skipped(Return(SemgrepResult(0, "vulnerabilities", <<>>, None)))
        ELSE IF r.raised = None THEN Ran(r)
        ELSE IF r.raised = "TimeoutExpired"
        THEN Ran(Return(SemgrepResult(n, "vulnerability", <<>>, "Timeout after 60s")))
        ELSE Ran(Return(SemgrepResult(n, "vulnerability", <<>>, r.raised)))

\* ----------------------------------------------------- tools/sca_tool.py
HasManifest(tree) ==
    \E f \in tree : f.name = "requirements.txt"

\* scan_dependencies, lines 47-81: subprocess.run and the parse of its
\* output; the inner try catches json.JSONDecodeError.
snyk_try(out) ==
    IF out.kind = "timeout" THEN Raise("TimeoutExpired")
    ELSE IF out.kind = "oserror" THEN Raise("OSError")
    ELSE IF out.stdout = "json"
    THEN Return(ScanResult("snyk", "vulnerabilities", Findings(out.n), None))
    ELSE IF out.stdout = "garbage"
    THEN Return(ScanResult("snyk", "vulnerabilities", <<>>, "Cannot parse Snyk output"))
    ELSE Return(ScanResult("snyk", "vulnerabilities", <<>>,
                           IF out.stderr # "" THEN out.stderr ELSE "No output from Snyk"))

\* SnykScanner.scan_dependencies
scan_dependencies(tree, out) ==
    LET r == snyk_try(out) IN
    IF ~HasManifest(tree)
    THEN Skipped(Return(ScanResult("snyk", "vulnerabilities", <<>>, "No requirements.txt found")))
    ELSE IF r.raised = None THEN Ran(r)
    ELSE IF r.raised = "TimeoutExpired"
    THEN Ran(Return(ScanResult("snyk", "vulnerabilities", <<>>, "Timeout after 60s")))
    ELSE Ran(Return(ScanResult("snyk", "vulnerabilities", <<>>, r.raised)))

\* ------------------------------------------------------ mas_core/nodes.py
\* The names bound at module level in nodes.py and the names local to
\* analyze_with_llm when its line 141 is evaluated.
nodes_globals ==
    {"os", "SecretStr", "ScanState", "SemgrepScanner", "SnykScanner", "load_dotenv",
     "ChatOpenAI", "SecurityIssue", "LLMAnalysisResult", "List", "Dict", "Any",
     "OPENAI_API_KEY", "coordinator_node", "scan_project_files", "sast_worker_node",
     "sca_worker_node", "aggregator_node", "analyze_with_llm", "format_sast_findings",
     "format_sca_findings"}

analyze_with_llm_locals ==
    {"sast_results", "sca_results", "total_files", "llm", "sast_vulns", "sca_vulns"}

\* The number of positional parameters of format_sast_findings and
\* format_sca_findings, and the number of arguments analyze_with_llm passes.
format_findings_params == 1
format_findings_args == 2

\* The replies of the external analysis service to llm.invoke.
LLMReplies == {"ok", "unavailable", "malformed"}

LLMAnalysis ==
    [issues |-> <<>>, overall_risk |-> "Low",
     remediation_priority |-> <<"fix", "upgrade", "review">>]

\* analyze_with_llm: the value it returns is <<analysis>>, or <<>> for None.
analyze_with_llm(sast_results, sca_results, total_files, reply) ==
    LET sast_vulns == Take20(DictGet(sast_results, "vulnerabilities", <<>>))
        sca_vulns == Take20(DictGet(sca_results, "vulnerabilities", <<>>))
    IN  IF "project_path" \notin (analyze_with_llm_locals \cup nodes_globals)
        THEN Raise("name 'project_path' is not defined")
        ELSE IF format_findings_args # format_findings_params
        THEN Raise("format_sast_findings() takes 1 positional argument but 2 were given")
        ELSE IF reply = "ok"
        THEN Return(<<LLMAnalysis>>)
        ELSE Return(<<>>)

\* coordinator_node
coordinator_node(state) ==
    LET all_files == scan_project_files(TreeAt(state.project_path))
    IN  Return([all_files |-> all_files,
                total_files |-> Cardinality(all_files),
                scan_status |-> <<"ready_to_scan">>])

\* sast_worker_node also returning the file list emptied.
sast_worker_node_clears_files(state, out) ==
    LET results == scan_files(state.all_files, out) IN
    IF results.raised # None THEN Raise(results.raised)
    ELSE Return([sast_results |-> results.value,
                 all_files |-> {},
                 scan_status |-> <<"sast_completed">>])

\* sast_worker_node
sast_worker_node(state, out) ==
    LET results == scan_files(state.all_files, out) IN
    IF results.raised # None THEN Raise(results.raised)
    ELSE Return([sast_results |-> results.value,
                 scan_status |-> <<"sast_completed">>])

\* sca_worker_node
sca_worker_node(state, out) ==
    LET results == scan_dependencies(TreeAt(state.project_path), out) IN
    IF results.raised # None THEN Raise(results.raised)
    ELSE Return([sca_results |-> results.value,
                 scan_status |-> <<"sca_completed">>])

\* aggregator_node
aggregator_node(state, reply) ==
    LET sast_results == state.sast_results
        sca_results == state.sca_results
        total_sast_issues == DictGet(sast_results, "total_issues", 0)
        total_sca_issues == DictGet(sca_results, "total_issues", 0)
        llm_analysis == analyze_with_llm(sast_results, sca_results, state.total_files, reply)
    IN  IF llm_analysis.raised # None
        THEN Raise(llm_analysis.raised)
        ELSE IF llm_analysis.value = <<>>
        THEN Raise("'NoneType' object has no attribute 'overall_risk'")
        ELSE Return(
            [final_report |->
                [summary |-> [total_files_scanned |-> state.total_files,
                              sast_issues |-> total_sast_issues,
                              sca_issues |-> total_sca_issues,
                              total_issues |-> total_sast_issues + total_sca_issues,
                              overall_risk |-> llm_analysis.value[1].overall_risk],
                 issues |-> llm_analysis.value[1].issues,
                 remediation_priority |-> llm_analysis.value[1].remediation_priority],
             scan_status |-> <<"completed">>])

\* ------------------------------------------------------ mas_core/graph.py
END == "__end__"
Nodes == {"coordinator", "sast_worker", "sca_worker", "aggregator"}
EntryPoint == "coordinator"

\* The edges with the aggregator wired to the coordinator in place of the
\* SCA worker.
EdgesNoJoin ==
    { <<"coordinator", "sast_worker">>, <<"coordinator", "sca_worker">>,
      <<"sast_worker", "aggregator">>, <<"coordinator", "aggregator">>,
      <<"aggregator", END>> }

\* The edges with the SCA worker also wired after the SAST worker.
EdgesStaggered ==
    { <<"coordinator", "sast_worker">>, <<"coordinator", "sca_worker">>,
      <<"sast_worker", "sca_worker">>, <<"sast_worker", "aggregator">>,
      <<"sca_worker", "aggregator">>, <<"aggregator", END>> }

\* create_scan_graph: the edges added with add_edge.
Edges ==
    { <<"coordinator", "sast_worker">>, <<"coordinator", "sca_worker">>,
      <<"sast_worker", "aggregator">>, <<"sca_worker", "aggregator">>,
      <<"aggregator", END>> }

\* The nodes the graph library starts in the superstep after `done`: every
\* node some edge reaches from a node that ran in this one.
Successors(done) ==
    { m \in Nodes : \E n \in done : <<n, m>> \in Edges }

\* ScanState: scan_status is Annotated with operator.add, an update to it is
\* appended; an update to any other key replaces the value.
ApplyUpdate(state, upd) ==
    [k \in DOMAIN state |->
        IF k \notin DOMAIN upd THEN state[k]
        ELSE IF k = "scan_status" THEN state[k] \o upd[k]
        ELSE upd[k]]

\* The order in which the library applies the updates of one superstep.
NodeOrder == <<"coordinator", "sast_worker", "sca_worker", "aggregator">>

RECURSIVE ApplyAll(_, _, _)
ApplyAll(state, returned, i) ==
    IF i > Len(NodeOrder) THEN state
    ELSE ApplyAll(IF NodeOrder[i] \in DOMAIN returned
                  THEN ApplyUpdate(state, returned[NodeOrder[i]].value)
                  ELSE state,
                  returned, i + 1)

\* ------------------------------------------------ api_server/api_server.py
JobRecord(status, progress, result, error) ==
    [status |-> status, progress |-> progress, result |-> result, error |-> error]

NoRun ==
    [pc |-> "idle"]

Response(op, id, code) ==
    [op |-> op, id |-> id, code |-> code]

\* The latest step of the event loop was not a request handler.
NoResponse ==
    Response("none", 0, 0)

NoNodes ==
    [n \in Nodes |-> 0]

Init ==
    /\ scan_results = <<>>
    /\ disk = <<>>
    /\ created = {}
    /\ rmtree_calls = <<>>
    /\ uploads = <<>>
    /\ background = {}
    /\ run = NoRun
    /\ runlog = <<>>
    /\ http = NoResponse

\* No coroutine is executing on the event loop.
LoopFree ==
    run.pc = "idle"

\* ZipFile.extractall writes each member under the target directory with the
\* "..", "." and empty components of its name removed.
IsPlainDir(d) ==
    d \notin {"..", ".", ""}

extractall(tree) ==
    { File(SelectSeq(f.dirs, IsPlainDir), f.name, f.ext) : f \in tree }

\* extract_codebase with the exceptions of ZipFile and extractall swallowed.
extract_codebase_ignoring_errors(w, upload) ==
    [dir |-> w :> extractall(upload.tree), raised |-> None]

\* extract_codebase: what it leaves on disk and whether it returned.  mkdtemp
\* makes the directory before the archive is opened; nothing removes it when
\* ZipFile or extractall raises.
extract_codebase(w, upload) ==
    [dir |-> w :> extractall(upload.tree),
     raised |-> IF upload.archive = "zip" THEN None ELSE "File is not a zip file"]

\* rmtree of project_path instead of project_path.parent: the temp directory stays.
rmtree_project_only(d, w) ==
    d

\* rmtree of the directory the temp directories are made in: every workspace goes.
rmtree_temp_root(d, w) ==
    <<>>

\* shutil.rmtree(project_path.parent, ignore_errors=True)
rmtree(d, w) ==
    [x \in DOMAIN d \ {w} |-> d[x]]

\* POST /scan.  The upload is submission s: uuid4 and mkdtemp each return a
\* fresh name, both written s here.
create_scan(upload) ==
    LET s == Len(uploads) + 1 IN
    /\ LoopFree
    /\ Len(uploads) < MaxSubmits
    /\ uploads' = Append(uploads, upload)
    /\ IF ~upload.zipname
       THEN /\ http' = Response("create", s, 400)
            /\ UNCHANGED <<scan_results, disk, created, rmtree_calls, background>>
       ELSE LET x == extract_codebase(s, upload) IN
            /\ created' = created \cup {s}
            /\ disk' = disk @@ x.dir
            /\ rmtree_calls' = rmtree_calls @@ (s :> 0)
            /\ IF x.raised # None
               THEN /\ http' = Response("create", s, 500)
                    /\ UNCHANGED <<scan_results, background>>
               ELSE /\ scan_results' = scan_results @@ (s :> JobRecord("pending", 0, <<>>, None))
                    /\ background' = background \cup {s}
                    /\ http' = Response("create", s, 200)
    /\ UNCHANGED <<run, runlog>>

\* GET /scan/{scan_id}
get_scan_status(scan_id) ==
    /\ LoopFree
    /\ http' = Response("status", scan_id, IF scan_id \in DOMAIN scan_results THEN 200 ELSE 404)
    /\ UNCHANGED <<scan_results, disk, created, rmtree_calls, uploads, background, run, runlog>>

\* GET /health: the counts it answers with are read from the table.
health_check ==
    /\ LoopFree
    /\ http' = Response("health", 0, 200)
    /\ UNCHANGED <<scan_results, disk, created, rmtree_calls, uploads, background, run, runlog>>

\* delete_scan answering 200 without `del scan_results[scan_id]`.
delete_scan_keeps_record(scan_id) ==
    /\ LoopFree
    /\ http' = Response("delete", scan_id, IF scan_id \in DOMAIN scan_results THEN 200 ELSE 404)
    /\ UNCHANGED <<scan_results, disk, created, rmtree_calls, uploads, background, run, runlog>>

\* DELETE /scan/{scan_id}
delete_scan(scan_id) ==
    /\ LoopFree
    /\ IF scan_id \notin DOMAIN scan_results
       THEN /\ http' = Response("delete", scan_id, 404)
            /\ UNCHANGED scan_results
       ELSE /\ scan_results' = [j \in DOMAIN scan_results \ {scan_id} |-> scan_results[j]]
            /\ http' = Response("delete", scan_id, 200)
    /\ UNCHANGED <<disk, created, rmtree_calls, uploads, background, run, runlog>>

\* The assignment made to every record of the table.
SetFieldsOfAll(table, scan_id, fields) ==
    [j \in DOMAIN table |->
        [k \in DOMAIN table[j] |-> IF k \in DOMAIN fields THEN fields[k] ELSE table[j][k]]]

\* scan_results[scan_id][key] = value for each key of `fields`; a KeyError
\* when scan_id is not in the table.
SetFields(table, scan_id, fields) ==
    [table EXCEPT ![scan_id] =
        [k \in DOMAIN @ |-> IF k \in DOMAIN fields THEN fields[k] ELSE @[k]]]

InitialState(project_path) ==
    [project_path |-> project_path, all_files |-> {}, total_files |-> 0,
     sast_results |-> EmptyDict, sca_results |-> EmptyDict, final_report |-> EmptyDict,
     scan_status |-> <<>>]

\* run_scan_task, lines 68-70: the event loop starts a scheduled run.
RunStart(scan_id) ==
    /\ LoopFree
    /\ scan_id \in background
    /\ background' = background \ {scan_id}
    /\ runlog' = runlog @@ (scan_id :> [ended |-> FALSE, raised |-> None, nodes |-> NoNodes])
    /\ IF scan_id \in DOMAIN scan_results
       THEN /\ scan_results' = SetFields(scan_results, scan_id,
                                         [status |-> "scanning", progress |-> 10])
            /\ run' = [pc |-> "init", id |-> scan_id, project_path |-> scan_id,
                       raised |-> None, llm |-> None]
       ELSE /\ run' = [pc |-> "end", id |-> scan_id, project_path |-> scan_id,
                       raised |-> "KeyError", llm |-> None]
            /\ UNCHANGED scan_results
    /\ http' = NoResponse
    /\ UNCHANGED <<disk, created, rmtree_calls, uploads>>

\* run_scan_task, lines 73-83
RunInit ==
    /\ run.pc = "init"
    /\ scan_results' = SetFields(scan_results, run.id, [progress |-> 30])
    /\ run' = [pc |-> "invoke", id |-> run.id, project_path |-> run.project_path,
               raised |-> None, llm |-> None,
               state |-> InitialState(run.project_path),
               tasks |-> {EntryPoint}, returned |-> <<>>]
    /\ UNCHANGED <<disk, created, rmtree_calls, uploads, background, runlog, http>>

\* A node of the current superstep that has not run yet.
Runnable(n) ==
    /\ run.pc = "invoke"
    /\ n \in run.tasks
    /\ n \notin DOMAIN run.returned

NodeReturns(n, result, reply) ==
    /\ run' = [run EXCEPT !.returned = @ @@ (n :> result), !.llm = reply]
    /\ runlog' = [runlog EXCEPT ![run.id].nodes[n] = @ + 1]
    /\ UNCHANGED <<scan_results, disk, created, rmtree_calls, uploads, background, http>>

Coordinator ==
    /\ Runnable("coordinator")
    /\ NodeReturns("coordinator", coordinator_node(run.state), run.llm)

SastWorker ==
    /\ Runnable("sast_worker")
    /\ \E out \in SemgrepRunOutcomes :
         NodeReturns("sast_worker", sast_worker_node(run.state, out), run.llm)

ScaWorker ==
    /\ Runnable("sca_worker")
    /\ \E out \in SnykRunOutcomes :
         NodeReturns("sca_worker", sca_worker_node(run.state, out), run.llm)

\* The reply of the analysis service during this run is recorded in run.llm.
Aggregator ==
    /\ Runnable("aggregator")
    /\ \E reply \in LLMReplies :
         NodeReturns("aggregator", aggregator_node(run.state, reply), reply)

\* The graph library ends a superstep when every node of it has returned:
\* invoke raises what a node raised; otherwise the updates are applied and
\* the successors start, and invoke returns when there are none.
GraphStep ==
    /\ run.pc = "invoke"
    /\ run.tasks \subseteq DOMAIN run.returned
    /\ LET failed == { n \in run.tasks : run.returned[n].raised # None }
           next == Successors(run.tasks)
       IN  IF failed # {}
           THEN run' = [run EXCEPT !.pc = "end",
                                   !.raised = run.returned[CHOOSE n \in failed : TRUE].raised]
           ELSE run' = [run EXCEPT !.pc = IF next = {} THEN "end" ELSE "invoke",
                                   !.state = ApplyAll(run.state, run.returned, 1),
                                   !.tasks = next,
                                   !.returned = <<>>]
    /\ UNCHANGED <<scan_results, disk, created, rmtree_calls, uploads, background, runlog, http>>

\* The except clause putting the job back in the queue.
FailedFieldsRequeue(msg) ==
    [status |-> "pending", error |-> msg]

\* The except clause without its line 95.
FailedFieldsNoMessage(msg) ==
    [status |-> "failed"]

\* The except clause also storing the state of the scan as the result.
FailedFieldsWithResult(msg) ==
    [status |-> "failed", error |-> msg, result |-> <<EmptyDict>>]

\* The except clause storing an empty message.
FailedFieldsEmptyMessage(msg) ==
    [status |-> "failed", error |-> ""]

\* The except clause resetting the progress of the job.
FailedFieldsResetProgress(msg) ==
    [status |-> "failed", error |-> msg, progress |-> 0]

\* The except clause without its line 94.
FailedFieldsKeepStatus(msg) ==
    [error |-> msg]

\* run_scan_task, lines 94-95: the fields the except clause writes.
FailedFields(msg) ==
    [status |-> "failed", error |-> msg]

\* run_scan_task, lines 88-90: the fields written after invoke returned.
CompletedFields(final_state) ==
    [status |-> "completed", progress |-> 100, result |-> <<final_state.final_report>>]

\* run_scan_task with the rmtree after the try statement instead of in a
\* finally clause: a KeyError raised by the except clause skips it.
RunEndWithoutFinally ==
    /\ run.pc = "end"
    /\ scan_results' =
         IF run.id \notin DOMAIN scan_results THEN scan_results
         ELSE IF run.raised = None
         THEN SetFields(scan_results, run.id, CompletedFields(run.state))
         ELSE SetFields(scan_results, run.id, FailedFields(run.raised))
    /\ IF run.id \notin DOMAIN scan_results
       THEN UNCHANGED <<disk, rmtree_calls>>
       ELSE /\ disk' = rmtree(disk, run.project_path)
            /\ rmtree_calls' = [rmtree_calls EXCEPT ![run.project_path] = @ + 1]
    /\ runlog' = [runlog EXCEPT ![run.id].ended = TRUE, ![run.id].raised = run.raised]
    /\ run' = NoRun
    /\ UNCHANGED <<created, uploads, background, http>>

\* run_scan_task, lines 88-99: the writes after invoke returned, the except
\* clause when anything in the try block raised (a KeyError of the except
\* clause itself leaves the table as it is), and the finally clause.
RunEnd ==
    /\ run.pc = "end"
    /\ scan_results' =
         IF run.id \notin DOMAIN scan_results THEN scan_results
         ELSE IF run.raised = None
         THEN SetFields(scan_results, run.id, CompletedFields(run.state))
         ELSE SetFields(scan_results, run.id, FailedFields(run.raised))
    /\ disk' = rmtree(disk, run.project_path)
    /\ rmtree_calls' = [rmtree_calls EXCEPT ![run.project_path] = @ + 1]
    /\ runlog' = [runlog EXCEPT ![run.id].ended = TRUE, ![run.id].raised = run.raised]
    /\ run' = NoRun
    /\ UNCHANGED <<created, uploads, background, http>>

Next ==
    \/ \E upload \in Uploads : create_scan(upload)
    \/ \E scan_id \in 1..MaxSubmits : get_scan_status(scan_id)
    \/ \E scan_id \in 1..MaxSubmits : delete_scan(scan_id)
    \/ health_check
    \/ \E scan_id \in 1..MaxSubmits : RunStart(scan_id)
    \/ RunInit
    \/ Coordinator
    \/ SastWorker
    \/ ScaWorker
    \/ Aggregator
    \/ GraphStep
    \/ RunEnd

Spec == Init /\ [][Next]_vars

\* The steps of the background tasks: the event loop starts every task it
\* was handed, run_scan_task has no loop and no wait, the graph has no
\* cycle, and each subprocess.run returns or raises within its timeout.
RunSteps ==
    \/ \E scan_id \in 1..MaxSubmits : RunStart(scan_id)
    \/ RunInit
    \/ Coordinator
    \/ SastWorker
    \/ ScaWorker
    \/ Aggregator
    \/ GraphStep
    \/ RunEnd

\* The API with its scheduled runs executed.
LiveSpec == Init /\ [][Next]_vars /\ WF_vars(RunSteps)

\* ================================================================== claims
Jobs == DOMAIN scan_results

\* Submission s passed the filename check and its archive was extracted.
Accepted(s) ==
    /\ s \in 1..Len(uploads)
    /\ uploads[s].zipname
    /\ uploads[s].archive = "zip"

\* Submission s passed the filename check and extraction of its archive failed.
ExtractionFailed(s) ==
    /\ s \in 1..Len(uploads)
    /\ uploads[s].zipname
    /\ uploads[s].archive # "zip"

\* The run of job j has ended (its finally clause has run).
RunEnded(j) ==
    j \in DOMAIN runlog /\ runlog[j].ended

\* The run being executed has invoked the scan graph.
GraphInvoked ==
    run.pc \in {"invoke", "end"} /\ runlog[run.id].nodes["coordinator"] > 0

StatusMoves ==
    { <<"pending", "scanning">>, <<"scanning", "completed">>, <<"scanning", "failed">> }

\* C1: in every step, a job that stays in the table keeps its status or moves
\* pending -> scanning, scanning -> completed or scanning -> failed (so it
\* never re-enters pending or scanning and never leaves completed or failed),
\* and a record that enters the table is a pending one under an id no
\* earlier submission had.
C1_StatusMoves ==
    [][ /\ \A j \in Jobs \cap DOMAIN scan_results' :
             \/ scan_results'[j].status = scan_results[j].status
             \/ <<scan_results[j].status, scan_results'[j].status>> \in StatusMoves
        /\ \A j \in DOMAIN scan_results' \ Jobs :
             /\ scan_results'[j].status = "pending"
             /\ j > Len(uploads)
      ]_vars

\* A job that went pending -> scanning -> failed, after which a second job
\* was submitted.
C1_Witness ==
    \E j \in Jobs, k \in Jobs :
        /\ j # k
        /\ scan_results[j].status = "failed"
        /\ RunEnded(j)
        /\ scan_results[k].status = "pending"

\* C2: every accepted submission has one workspace; rmtree has been called
\* on it once when its run has ended, and then it is gone from the disk, and
\* not at all before, and then it is on the disk.
C2_OneWorkspaceOneRelease ==
    \A s \in 1..Len(uploads) :
        Accepted(s) =>
            /\ s \in created
            /\ IF RunEnded(s)
               THEN rmtree_calls[s] = 1 /\ s \notin DOMAIN disk
               ELSE rmtree_calls[s] = 0 /\ s \in DOMAIN disk

\* The run of an accepted job ended Failed and its workspace was released,
\* and the run of another, whose record had been deleted, ended too.
C2_Witness ==
    \E s \in Jobs, t \in 1..Len(uploads) :
        /\ Accepted(s) /\ RunEnded(s)
        /\ scan_results[s].status = "failed"
        /\ rmtree_calls[s] = 1
        /\ Accepted(t) /\ RunEnded(t) /\ t \notin Jobs
        /\ runlog[t].raised = "KeyError"

\* C3: while the aggregator is a node of the current superstep (about to run,
\* or returned), both workers have returned, neither is still running, and
\* the state the aggregator reads holds the ScanResult of each.
C3_JoinBarrier ==
    (run.pc = "invoke" /\ "aggregator" \in run.tasks) =>
        /\ runlog[run.id].nodes["sast_worker"] = 1
        /\ runlog[run.id].nodes["sca_worker"] = 1
        /\ run.tasks \cap {"sast_worker", "sca_worker"} = {}
        /\ "total_issues" \in DOMAIN run.state.sast_results
        /\ "total_issues" \in DOMAIN run.state.sca_results
        /\ run.state.sast_results.tool = "semgrep"
        /\ run.state.sca_results.tool = "snyk"

\* The aggregator has run on the results of an SCA worker that timed out.
C3_Witness ==
    /\ run.pc = "invoke"
    /\ "aggregator" \in DOMAIN run.returned
    /\ run.state.sca_results.error = "Timeout after 60s"
    /\ run.state.sast_results.error = None

\* C4: the step that ends a run whose scan graph raised leaves the job
\* failed with the message of the exception as its error, no result, and
\* the workspace removed.
C4_GraphExceptionFailsJob ==
    [][ (run.pc = "end" /\ GraphInvoked /\ run.raised # None) =>
            /\ run.id \in DOMAIN scan_results'
            /\ scan_results'[run.id].status = "failed"
            /\ scan_results'[run.id].error = run.raised
            /\ scan_results'[run.id].result = <<>>
            /\ run.project_path \notin DOMAIN disk'
            /\ rmtree_calls'[run.project_path] = 1
      ]_vars

\* A job failed with the exception the aggregator raised, workspace released.
C4_Witness ==
    \E j \in Jobs :
        /\ RunEnded(j)
        /\ runlog[j].nodes["aggregator"] = 1
        /\ runlog[j].raised = "name 'project_path' is not defined"
        /\ scan_results[j].status = "failed"
        /\ scan_results[j].error = "name 'project_path' is not defined"
        /\ j \notin DOMAIN disk

\* The analysis service is unavailable, or replies with malformed output.
LLMFailed ==
    run.pc \in {"invoke", "end"} /\ run.llm \in {"unavailable", "malformed"}

\* A ScanResult with its error field set.
SoftFailed(result) ==
    "error" \in DOMAIN result /\ result.error # None

\* C5: when the call of the analysis service fails or returns malformed
\* output, the aggregator returns (does not raise) a report whose summary
\* holds the counts of the two ScanResults, and the run ends without an
\* exception, so the job is marked completed.
C5_DegradedReport ==
    /\ (run.pc = "invoke" /\ LLMFailed /\ "aggregator" \in DOMAIN run.returned) =>
         LET r == run.returned["aggregator"] IN
         /\ r.raised = None
         /\ r.value.final_report.summary.sast_issues = run.state.sast_results.total_issues
         /\ r.value.final_report.summary.sca_issues = run.state.sca_results.total_issues
    /\ (run.pc = "end" /\ LLMFailed) => run.raised = None

\* C6: the step that ends a run in which an adapter soft-failed (one of
\* them, or both) leaves the job completed with a report.
C6_SoftFailureCompletes ==
    [][ ( /\ run.pc = "end" /\ GraphInvoked
          /\ SoftFailed(run.state.sast_results) \/ SoftFailed(run.state.sca_results)
          /\ run.id \in Jobs ) =>
            /\ scan_results'[run.id].status = "completed"
            /\ scan_results'[run.id].result # <<>>
      ]_vars

\* The archive holds no file discovery returns and no requirements.txt.
NothingToScan(tree) ==
    scan_project_files(tree) = {} /\ ~HasManifest(tree)

\* C7: the step that ends the run of a job whose archive holds no recognized
\* source file and no dependency manifest leaves the job completed, with
\* total_files_scanned = 0 and total_issues = 0 in the summary of its report.
C7_EmptyProjectCompletes ==
    [][ ( /\ run.pc = "end" /\ GraphInvoked
          /\ NothingToScan(uploads[run.id].tree)
          /\ run.id \in Jobs ) =>
            /\ scan_results'[run.id].status = "completed"
            /\ scan_results'[run.id].result # <<>>
            /\ scan_results'[run.id].result[1].summary.total_files_scanned = 0
            /\ scan_results'[run.id].result[1].summary.total_issues = 0
      ]_vars

\* C8: for an upload that is not a zip archive the response is an error, no
\* job record is added, no workspace is created and no run is scheduled or
\* started.
C8_NonZipRejected ==
    \A s \in 1..Len(uploads) :
        uploads[s].archive # "zip" =>
            /\ (http.op = "create" /\ http.id = s) => http.code # 200
            /\ s \notin Jobs
            /\ s \notin created
            /\ s \notin background
            /\ s \notin DOMAIN runlog

\* C9 as stated: right after a submission whose extraction failed there is a
\* job record for it, marked failed, and no node of the scan graph has run
\* for it.
C9_FailedJobOnExtractionError ==
    \A s \in 1..Len(uploads) :
        (ExtractionFailed(s) /\ http.op = "create" /\ http.id = s) =>
            /\ s \in Jobs
            /\ scan_results[s].status = "failed"
            /\ s \notin DOMAIN runlog

\* C9 amended: a submission whose extraction failed is answered with the
\* error response 500, has no job record, and no run is scheduled or started
\* for it (so no discovery and no scanning).
C9_RejectedOnExtractionError ==
    \A s \in 1..Len(uploads) :
        ExtractionFailed(s) =>
            /\ (http.op = "create" /\ http.id = s) => http.code = 500
            /\ s \notin Jobs
            /\ s \notin background
            /\ s \notin DOMAIN runlog
            /\ ~(run.pc # "idle" /\ run.id = s)

\* A submission whose extraction failed has just been answered with 500
\* while the job of an earlier one exists.
C9_Witness ==
    \E s \in 1..Len(uploads) :
        /\ ExtractionFailed(s)
        /\ http = Response("create", s, 500)
        /\ Jobs # {}

\* C10: once a submission has been answered and its run, if one was
\* scheduled, has ended, the workspace created for it is no longer on disk.
C10_NoWorkspaceRemains ==
    \A s \in created :
        (s \notin background /\ (s \in DOMAIN runlog => runlog[s].ended)) =>
            s \notin DOMAIN disk

\* The archive of submission s has a member resolving outside the target.
HasTraversal(s) ==
    s \in 1..Len(uploads) /\ \E f \in uploads[s].tree : Escapes(f)

\* C11: a submission whose archive holds a path-traversal entry is refused:
\* its response is an error, no job record is added for it and no run is
\* scheduled or started.
C11_TraversalRejected ==
    \A s \in 1..Len(uploads) :
        HasTraversal(s) =>
            /\ (http.op = "create" /\ http.id = s) => http.code # 200
            /\ s \notin Jobs
            /\ s \notin background
            /\ s \notin DOMAIN runlog

\* C16: a status or delete request is answered 404 exactly when its id is
\* not in the job table, the record is gone after a delete, and an id that
\* was issued and is not in the table never enters it again (no step of a
\* run puts a deleted record back).
C16_NotFoundIffAbsent ==
    [][ /\ (http'.op = "status" /\ http' # http) =>
             (http'.code = 404 <=> http'.id \notin Jobs)
        /\ (http'.op = "delete" /\ <<http, scan_results>>' # <<http, scan_results>>) =>
             /\ http'.code = 404 <=> http'.id \notin Jobs
             /\ http'.id \notin DOMAIN scan_results'
        /\ \A j \in 1..Len(uploads) : j \notin Jobs => j \notin DOMAIN scan_results'
      ]_vars

\* The record of an accepted job was deleted before its run started, the run
\* has ended, and a status request for it has just been answered 404.
C16_Witness ==
    \E j \in 1..Len(uploads) :
        /\ Accepted(j)
        /\ RunEnded(j)
        /\ runlog[j].raised = "KeyError"
        /\ http = Response("status", j, 404)

\* C17: a job has a result only when it is completed and an error only when
\* it is failed, and never both.
C17_ResultAndErrorMatchStatus ==
    \A j \in Jobs :
        /\ scan_results[j].result # <<>> => scan_results[j].status = "completed"
        /\ scan_results[j].error # None => scan_results[j].status = "failed"
        /\ scan_results[j].result = <<>> \/ scan_results[j].error = None

\* A failed job with an error and no result beside a scanning job with neither.
C17_Witness ==
    \E j \in Jobs, k \in Jobs :
        /\ scan_results[j].status = "failed"
        /\ scan_results[j].error # None
        /\ scan_results[j].result = <<>>
        /\ scan_results[k].status = "scanning"
        /\ scan_results[k].error = None
        /\ scan_results[k].result = <<>>

ReportKeys == {"summary", "issues", "remediation_priority"}

\* C18: a failed job has an error that is neither None nor the empty string,
\* and a completed job has a report with a summary, an issues list and a
\* remediation-priority list.
C18_FailedHasErrorCompletedHasReport ==
    \A j \in Jobs :
        /\ scan_results[j].status = "failed" =>
             scan_results[j].error \notin {None, ""}
        /\ scan_results[j].status = "completed" =>
             /\ scan_results[j].result # <<>>
             /\ ReportKeys \subseteq DOMAIN scan_results[j].result[1]

\* A job failed by the exception of the aggregator, with its message.
C18_Witness ==
    \E j \in Jobs :
        /\ scan_results[j].status = "failed"
        /\ runlog[j].nodes["aggregator"] = 1
        /\ scan_results[j].error = runlog[j].raised
        /\ scan_results[j].error # ""

\* C19: after every step the progress of each job is in 0..100, is 0 when
\* the job is pending and 100 when it is completed, and is not less than it
\* was before the step.
C19_ProgressMonotone ==
    [][ /\ \A j \in DOMAIN scan_results' :
             /\ scan_results'[j].progress \in 0..100
             /\ scan_results'[j].status = "pending" => scan_results'[j].progress = 0
             /\ scan_results'[j].status = "completed" => scan_results'[j].progress = 100
        /\ \A j \in Jobs \cap DOMAIN scan_results' :
             scan_results'[j].progress >= scan_results[j].progress
      ]_vars

\* A job that went through 0, 10 and 30 and failed, and a job at 10.
C19_Witness ==
    \E j \in Jobs, k \in Jobs :
        /\ scan_results[j].status = "failed"
        /\ scan_results[j].progress = 30
        /\ scan_results[k].status = "scanning"
        /\ scan_results[k].progress = 10

\* C20: a run that has ended for a job whose record is not in the table (it
\* was deleted) has executed every node of the scan graph once.
C20_DeleteDoesNotCancel ==
    \A j \in DOMAIN runlog :
        (runlog[j].ended /\ j \notin Jobs) =>
            \A n \in Nodes : runlog[j].nodes[n] = 1

\* C21: whenever the aggregator has run, it returned a report whose summary
\* holds the total_issues of the SAST result as sast_issues, the total_issues
\* of the SCA result as sca_issues, their sum as total_issues and the number
\* of discovered files as total_files_scanned, with or without an error in
\* either ScanResult.
C21_SummaryFromScanResults ==
    (run.pc = "invoke" /\ "aggregator" \in DOMAIN run.returned) =>
        LET r == run.returned["aggregator"]
            sast == run.state.sast_results.total_issues
            sca == run.state.sca_results.total_issues
        IN  /\ r.raised = None
            /\ r.value.final_report.summary.sast_issues = sast
            /\ r.value.final_report.summary.sca_issues = sca
            /\ r.value.final_report.summary.total_issues = sast + sca
            /\ r.value.final_report.summary.total_files_scanned =
                   Cardinality(run.state.all_files)

\* The scan graph of the run of job j was invoked.
Invoked(j) ==
    j \in DOMAIN runlog /\ runlog[j].nodes["coordinator"] > 0

\* C23: in every run no node of the scan graph has run more than once; a
\* worker has run only if the coordinator has, the aggregator only if both
\* workers have; and when a run whose graph was invoked has ended, every
\* node has run once.
C23_EachStageOnceInOrder ==
    \A j \in DOMAIN runlog :
        LET ran == runlog[j].nodes IN
        /\ \A n \in Nodes : ran[n] <= 1
        /\ (ran["sast_worker"] > 0 \/ ran["sca_worker"] > 0) => ran["coordinator"] = 1
        /\ ran["aggregator"] > 0 => (ran["sast_worker"] = 1 /\ ran["sca_worker"] = 1)
        /\ (runlog[j].ended /\ Invoked(j)) => \A n \in Nodes : ran[n] = 1
        /\ (run.pc = "end" /\ run.id = j /\ Invoked(j)) => \A n \in Nodes : ran[n] = 1

\* Two runs have ended, each with every node of the graph run once.
C23_Witness ==
    \E j \in DOMAIN runlog, k \in DOMAIN runlog :
        /\ j # k
        /\ runlog[j].ended /\ runlog[k].ended
        /\ \A n \in Nodes : runlog[j].nodes[n] = 1 /\ runlog[k].nodes[n] = 1

Workers == {"sast_worker", "sca_worker"}

\* The keys of ScanState that discovery fills in.
ScanContext == {"project_path", "all_files", "total_files"}

\* C24: the update the SAST worker returns holds sast_results and its marker
\* for scan_status and nothing else, the update of the SCA worker sca_results
\* and its marker and nothing else; the step that applies both leaves each
\* result as its own worker returned it, appends the two markers and leaves
\* final_report alone; project_path never changes during an invocation, and
\* no step after the discovery superstep changes all_files or total_files.
C24_WorkersShareNothing ==
    [][ (run.pc = "invoke" /\ run'.pc \in {"invoke", "end"}) =>
          /\ run'.state.project_path = run.state.project_path
          /\ EntryPoint \notin run.tasks =>
               \A k \in ScanContext : run'.state[k] = run.state[k]
          /\ "sast_worker" \in DOMAIN run'.returned =>
               /\ run'.returned["sast_worker"].raised = None
               /\ DOMAIN run'.returned["sast_worker"].value = {"sast_results", "scan_status"}
               /\ run'.returned["sast_worker"].value.scan_status = <<"sast_completed">>
          /\ "sca_worker" \in DOMAIN run'.returned =>
               /\ run'.returned["sca_worker"].raised = None
               /\ DOMAIN run'.returned["sca_worker"].value = {"sca_results", "scan_status"}
               /\ run'.returned["sca_worker"].value.scan_status = <<"sca_completed">>
          /\ (run.tasks = Workers /\ run'.tasks # run.tasks) =>
               /\ run'.state.sast_results = run.returned["sast_worker"].value.sast_results
               /\ run'.state.sca_results = run.returned["sca_worker"].value.sca_results
               /\ run'.state.final_report = run.state.final_report
               /\ Len(run'.state.scan_status) = Len(run.state.scan_status) + 2
               /\ \A m \in {"sast_completed", "sca_completed"} :
                    \E i \in DOMAIN run'.state.scan_status : run'.state.scan_status[i] = m
      ]_vars

\* Both workers' updates have been applied to a state in which discovery
\* found a file: the SAST result holds a finding, the SCA result an error.
C24_Witness ==
    /\ run.pc = "invoke"
    /\ run.tasks = {"aggregator"}
    /\ run.state.all_files # {}
    /\ run.state.total_files = Cardinality(run.state.all_files)
    /\ run.state.sast_results.total_issues > 0
    /\ run.state.sca_results.error # None

\* The record of every job but j is the same after the step, and no
\* record enters or leaves the table.
OthersUntouched(j) ==
    /\ DOMAIN scan_results' = DOMAIN scan_results
    /\ \A k \in Jobs \ {j} : scan_results'[k] = scan_results[k]

\* C25: every step of a run (its start included) leaves the record of every
\* other job as it was and adds or removes no record, and a status request
\* or a health check leaves the whole table as it was.
C25_RunWritesOwnJobOnly ==
    [][ /\ run.pc # "idle" => OthersUntouched(run.id)
        /\ (run.pc = "idle" /\ run'.pc # "idle") => OthersUntouched(run'.id)
        /\ http'.op \in {"status", "health"} => scan_results' = scan_results
      ]_vars

\* The run of one job has ended failed while the record of another job,
\* submitted before that run started, is still pending with nothing written.
C25_Witness ==
    \E j \in Jobs, k \in Jobs :
        /\ j # k
        /\ RunEnded(j)
        /\ scan_results[j].status = "failed"
        /\ k \in background
        /\ scan_results[k] = JobRecord("pending", 0, <<>>, None)
        /\ http.op = "health"

\* C26: while a run is between its start and the return of the scan graph
\* (initialising, or with a node still to run or running), its workspace is
\* on disk and rmtree has not been called on it; and a step that takes a
\* workspace off the disk is the last step of that workspace's own run,
\* taken after the graph returned or raised.
C26_NoReleaseWhileRunning ==
    [][ /\ run'.pc \in {"init", "invoke"} =>
             /\ run'.project_path \in DOMAIN disk'
             /\ rmtree_calls'[run'.project_path] = 0
        /\ \A w \in DOMAIN disk \ DOMAIN disk' :
             run.pc = "end" /\ run.project_path = w
      ]_vars

\* The aggregator of a run has returned with the workspace of the run still
\* on disk, after the run of another job ended and released its own.
C26_Witness ==
    /\ run.pc = "invoke"
    /\ "aggregator" \in DOMAIN run.returned
    /\ run.project_path \in DOMAIN disk
    /\ \E k \in DOMAIN runlog :
         k # run.id /\ runlog[k].ended /\ k \notin DOMAIN disk /\ rmtree_calls[k] = 1

\* The record of accepted job s was deleted before its run ended: its run is
\* still scheduled, or found no record when it started.
DeletedBeforeRunEnd(s) ==
    /\ Accepted(s)
    /\ s \notin Jobs
    /\ \/ s \in background
       \/ s \in DOMAIN runlog /\ runlog[s].raised = "KeyError"
       \/ run.pc # "idle" /\ run.id = s

\* C27: for a job whose record was deleted before its run ended, rmtree has
\* been called on the workspace once when the run has ended, and the
\* workspace is then off the disk; until then it has not been called and the
\* workspace is on the disk.
C27_DeletedJobStillReleased ==
    \A s \in 1..Len(uploads) :
        DeletedBeforeRunEnd(s) =>
            IF RunEnded(s)
            THEN rmtree_calls[s] = 1 /\ s \notin DOMAIN disk
            ELSE rmtree_calls[s] = 0 /\ s \in DOMAIN disk

\* The run of a deleted job has ended with its workspace released, and
\* the run of a second deleted job is still scheduled, its workspace on disk.
C27_Witness ==
    \E s \in 1..Len(uploads), t \in 1..Len(uploads) :
        /\ DeletedBeforeRunEnd(s) /\ RunEnded(s)
        /\ rmtree_calls[s] = 1 /\ s \notin DOMAIN disk
        /\ DeletedBeforeRunEnd(t) /\ t \in background
        /\ t \in DOMAIN disk

Unfinished(s) ==
    s \in Jobs /\ scan_results[s].status \in {"pending", "scanning"}

Finished(s) ==
    s \in Jobs /\ scan_results[s].status \in {"completed", "failed"}

\* C28: when the scheduled runs are executed, a job that is pending or
\* scanning is later completed or failed, or its record has been deleted.
C28_EveryJobTerminates ==
    \A s \in 1..MaxSubmits :
        Unfinished(s) ~> (Finished(s) \/ s \notin Jobs)

\* Every submission was accepted, none deleted, and the runs of all have
\* ended with the job in a terminal status.
C28_Witness ==
    /\ Len(uploads) = MaxSubmits
    /\ \A s \in 1..MaxSubmits : Accepted(s) /\ RunEnded(s) /\ Finished(s)
    /\ background = {}
    /\ run.pc = "idle"

\* ====================================================== the adapters alone
\* A call of one adapter with each target and each outcome of its external
\* process: run holds the call, and its result once the adapter is back.
SourceFiles == {File(<<>>, "app.py", ".py"), File(<<"src">>, "main.go", ".go")}

AdapterCall(tool, target, out) ==
    [pc |-> "adapter_call", tool |-> tool, target |-> target, out |-> out]

AdapterCalls ==
    { AdapterCall("semgrep", fs, out) : fs \in SUBSET SourceFiles, out \in SemgrepOutcomes }
    \cup { AdapterCall("snyk", t, out) : t \in Trees \cup {EmptyTree}, out \in SnykOutcomes }

AdapterInit ==
    /\ scan_results = <<>>
    /\ disk = <<>>
    /\ created = {}
    /\ rmtree_calls = <<>>
    /\ uploads = <<>>
    /\ background = {}
    /\ runlog = <<>>
    /\ http = NoResponse
    /\ run \in AdapterCalls

AdapterReturns(result) ==
    /\ run' = [pc |-> "adapter_done", tool |-> run.tool, target |-> run.target,
               out |-> run.out, result |-> result]
    /\ UNCHANGED <<scan_results, disk, created, rmtree_calls, uploads, background, runlog, http>>

SemgrepCall ==
    /\ run.pc = "adapter_call"
    /\ run.tool = "semgrep"
    /\ AdapterReturns(scan_files(run.target, run.out))

SnykCall ==
    /\ run.pc = "adapter_call"
    /\ run.tool = "snyk"
    /\ AdapterReturns(scan_dependencies(run.target, run.out))

AdapterNext ==
    \/ SemgrepCall
    \/ SnykCall

AdapterSpec == AdapterInit /\ [][AdapterNext]_vars

AdapterDone ==
    run.pc = "adapter_done"

ScanResultKeys == {"tool", "total_issues", "error"}

\* C12: every call of an adapter, whatever the external process did, comes
\* back with a ScanResult (a dict with tool, total_issues and error) and not
\* with an exception.
C12_AdapterNeverRaises ==
    AdapterDone =>
        /\ run.result.raised = None
        /\ ScanResultKeys \subseteq DOMAIN run.result.value
        /\ run.result.value.tool = run.tool

\* Semgrep could not be started and Snyk printed something that is not JSON:
\* both calls are back.
C12_Witness ==
    /\ AdapterDone
    /\ \/ run.tool = "semgrep" /\ run.out = StartFailed /\ run.target # {}
       \/ run.tool = "snyk" /\ run.out = StartFailed /\ HasManifest(run.target)

\* The external process ran and ended in the tool's success exit status
\* (0 or 1) with parseable output.
ToolSucceeded(out) ==
    out.kind = "exit" /\ out.code \in {0, 1} /\ out.stdout = "json"

\* C13: a call that reached the external process, whose outcome is not the
\* success exit status with parseable output, comes back with zero findings
\* and an error that is neither None nor the empty string.
C13_SoftFailureHasError ==
    (AdapterDone /\ run.result.invoked /\ ~ToolSucceeded(run.out)) =>
        /\ run.result.raised = None
        /\ run.result.value.total_issues = 0
        /\ run.result.value.error # None
        /\ run.result.value.error # ""

\* C14: the static-analysis adapter called with no file comes back with
\* total_issues = 0 and error None, the dependency adapter called on a tree
\* without requirements.txt with total_issues = 0 and the error
\* "No requirements.txt found"; neither reached subprocess.run.
C14_DegenerateInputShortCircuits ==
    /\ (AdapterDone /\ run.tool = "semgrep" /\ run.target = {}) =>
         /\ ~run.result.invoked
         /\ run.result.raised = None
         /\ run.result.value.total_issues = 0
         /\ run.result.value.error = None
    /\ (AdapterDone /\ run.tool = "snyk" /\ ~HasManifest(run.target)) =>
         /\ ~run.result.invoked
         /\ run.result.raised = None
         /\ run.result.value.total_issues = 0
         /\ run.result.value.error = "No requirements.txt found"

\* The semgrep adapter is back from a call with no file whose process would
\* have timed out.
C14_Witness ==
    /\ AdapterDone
    /\ run.tool = "semgrep"
    /\ run.target = {}
    /\ run.out = TimeoutExpired
    /\ ~run.result.invoked

\* C15: every ScanResult an adapter comes back with holds its findings under
\* 'vulnerabilities', and its total_issues is their number.
C15_TotalIssuesIsLenFindings ==
    AdapterDone =>
        /\ run.result.raised = None
        /\ "vulnerabilities" \in DOMAIN run.result.value
        /\ run.result.value.total_issues = Len(run.result.value.vulnerabilities)

\* ==================================================== file discovery alone
\* A call of scan_project_files on each directory tree made of these files.
DiscoveryFiles ==
    { File(<<>>, "app.py", ".py"), File(<<>>, "README.md", ".md"),
      File(<<"node_modules">>, "lib.js", ".js"),
      File(<<"src">>, "main.go", ".go"), File(<<"src">>, "notes.txt", ".txt"),
      File(<<"src", "build">>, "out.js", ".js"),
      File(<<".git", "hooks">>, "pre.py", ".py") }

DiscoveryTrees == SUBSET DiscoveryFiles

DiscoveryInit ==
    /\ scan_results = <<>>
    /\ disk = <<>>
    /\ created = {}
    /\ rmtree_calls = <<>>
    /\ uploads = <<>>
    /\ background = {}
    /\ runlog = <<>>
    /\ http = NoResponse
    /\ run \in { [pc |-> "discovery_call", tree |-> t] : t \in DiscoveryTrees }

DiscoveryCall ==
    /\ run.pc = "discovery_call"
    /\ run' = [pc |-> "discovery_done", tree |-> run.tree,
               result |-> Return(scan_project_files(run.tree))]
    /\ UNCHANGED <<scan_results, disk, created, rmtree_calls, uploads, background, runlog, http>>

DiscoveryNext ==
    DiscoveryCall

DiscoverySpec == DiscoveryInit /\ [][DiscoveryNext]_vars

DiscoveryDone ==
    run.pc = "discovery_done"

\* The file lies under a directory whose name is in the exclusion set.
UnderIgnoredDir(f) ==
    \E i \in DOMAIN f.dirs : f.dirs[i] \in ignore_dirs

\* C22: every call of scan_project_files returns (does not raise) files of
\* the tree only, none of them under a directory named in the exclusion set
\* and none with an extension outside the allow-list, and returns nothing
\* for a tree that is empty or whose files are all excluded.
C22_DiscoveryFilters ==
    DiscoveryDone =>
        /\ run.result.raised = None
        /\ run.result.value \subseteq run.tree
        /\ \A f \in run.result.value :
             ~UnderIgnoredDir(f) /\ f.ext \in file_extensions
        /\ (\A f \in run.tree : UnderIgnoredDir(f) \/ f.ext \notin file_extensions) =>
             run.result.value = {}

\* Discovery is back from a tree with a source file below an excluded
\* directory nested in src, one in node_modules, and one it returned.
C22_Witness ==
    /\ DiscoveryDone
    /\ File(<<"src", "build">>, "out.js", ".js") \in run.tree
    /\ File(<<"node_modules">>, "lib.js", ".js") \in run.tree
    /\ File(<<"src">>, "main.go", ".go") \in run.result.value
====
